---------------------------- MODULE Spec2Model ----------------------------
(***************************************************************************)
(* The persistent object model of DownloaderForReddit                      *)
(* (src/DownloaderForReddit/Database/Models.py): one RedditObject (the     *)
(* source) with its absolute_date_limit, its Post rows and their Content   *)
(* rows, and the methods that mutate them.  Every method commits at once,  *)
(* so a method call is one atomic step.                                    *)
(***************************************************************************)
EXTENDS Integers, Sequences, FiniteSets, TLC

(* ------------------------------ bounds --------------------------------- *)

\* epoch seconds range over 0..MaxEpoch
MaxEpoch == 4
\* Post rows are 1..MaxPosts
MaxPosts == 2
\* Content rows are 1..MaxContents
MaxContents == 1
\* datetime.now() ranges over 0..MaxClock
MaxClock == 1
\* DownloadSession ids are 1..MaxSession
MaxSession == 2
\* titles are up to MaxMargin characters long, or within MaxMargin
\* characters of the character limit
MaxMargin == 2
\* extraction workers are 1..MaxWorkers
MaxWorkers == 2
\* at most MaxRows Content rows are created in a run
MaxRows == 3

Epochs == 0..MaxEpoch
Posts == 1..MaxPosts
Contents == 1..MaxContents
Sessions == 1..MaxSession
Workers == 1..MaxWorkers
Messages == {"Failed to locate content", "Host unavailable"}

(* --------------------------- nullable columns -------------------------- *)

\* a nullable column holds Null or Some(v)
Null == << >>
Some(v) == << v >>

(* ------------------------------ datetime ------------------------------- *)

\* datetime.fromtimestamp(epoch): a datetime counts microseconds
fromtimestamp(epoch) == epoch * 1000000
\* datetime.timestamp(): epoch seconds of a datetime
timestamp(dt) == dt \div 1000000

(* ------------------------------- state --------------------------------- *)

VARIABLES
    absolute_date_limit,  \* RedditObject.absolute_date_limit (a datetime)
    posts,                \* Post rows: id -> record of columns
    contents,             \* Content rows: id -> record of columns
    now,                  \* the reading of datetime.now()
    session_id,           \* id of the open DownloadSession
    raised,               \* exception raised by the last method call, or Null
    initial_limit,        \* history: epoch of the watermark at start
    candidates,           \* history: epochs passed to set_date_limit so far
    phase,                \* coordinator: "idle", "extracting" or "finalized"
    batch,                \* coordinator: posts of the current batch
    outcome,              \* coordinator: post -> "none", "extracted", "failed"
    failed_before,        \* history: posts that failed in an earlier batch
    avoid_duplicates,     \* RedditObject.avoid_duplicates
    content_table,        \* the Content rows created by the extraction workers
    workers,              \* extraction worker -> what it is doing
    download_sessions     \* DownloadSession rows: id -> start and end time

vars == << absolute_date_limit, posts, contents, now, session_id, raised,
           initial_limit, candidates, phase, batch, outcome, failed_before,
           avoid_duplicates, content_table, workers, download_sessions >>

run_vars == << avoid_duplicates, content_table, workers, download_sessions >>

source_vars == << absolute_date_limit, initial_limit, candidates >>
coordinator_vars == << phase, batch, outcome, failed_before >>

(* ------------------------------- rows ---------------------------------- *)

\* a Post row as the column defaults leave it: extracted = False, the
\* nullable columns empty
NewPost(date_posted, download_session_id) ==
    [ date_posted |-> date_posted,
      extracted |-> FALSE,
      extraction_date |-> Null,
      extraction_error |-> Null,
      download_session_id |-> download_session_id ]

\* a Content row as the column defaults leave it
NewContent(post_id, title) ==
    [ post_id |-> post_id,
      title |-> title,
      download_title |-> Null,
      downloaded |-> FALSE,
      download_date |-> Null,
      download_error |-> Null,
      download_session_id |-> Null ]

(* ----------------------- RedditObject.set_date_limit ------------------- *)

\* set_date_limit without its test of the supplied epoch
set_date_limit_untested(limit, epoch) == fromtimestamp(epoch)

\* set_date_limit with the comparison turned round
set_date_limit_older(limit, epoch) ==
    IF epoch < timestamp(limit) THEN fromtimestamp(epoch) ELSE limit

\* the absolute date limit after set_date_limit(epoch)
set_date_limit(limit, epoch) ==
    IF epoch > timestamp(limit) THEN fromtimestamp(epoch) ELSE limit

(* ------------------------------ Post methods --------------------------- *)

\* set_extracted without the assignment of extracted
set_extracted_unflagged(post, clock) ==
    [post EXCEPT !.extraction_date = Some(clock)]

set_extracted(post, clock) ==
    [post EXCEPT !.extracted = TRUE, !.extraction_date = Some(clock)]

\* set_extraction_failed with the flag of set_extracted
set_extraction_failed_flagged(post, message) ==
    [post EXCEPT !.extracted = TRUE, !.extraction_error = Some(message)]

set_extraction_failed(post, message) ==
    [post EXCEPT !.extracted = FALSE, !.extraction_error = Some(message)]

(* ----------------------------- Content methods ------------------------- *)

\* set_downloaded without the assignment of download_session_id
set_downloaded_unstamped(content, download_session_id, clock) ==
    [content EXCEPT !.downloaded = TRUE, !.download_date = Some(clock)]

set_downloaded(content, download_session_id, clock) ==
    [content EXCEPT !.download_session_id = Some(download_session_id),
                    !.downloaded = TRUE,
                    !.download_date = Some(clock)]

set_download_error(content, message) ==
    [content EXCEPT !.downloaded = FALSE, !.download_error = Some(message)]

(* ----------------------- Content.make_download_title ------------------- *)

\* forbidden_chars = '"*\\/\'.|?:<>'
forbidden_chars == { "\"", "*", "\\", "/", "'", ".", "|", "?", ":", "<", ">" }

\* the length from which a file name is cut
CharacterLimit == 176
\* the characters kept of a file name that is cut
KeptCharacters == 170

\* the file name make_download_title computes from a title
filename(title) ==
    LET replaced == [ i \in 1..Len(title) |->
                        IF title[i] \in forbidden_chars THEN "#" ELSE title[i] ]
    IN  IF Len(replaced) >= CharacterLimit
        THEN SubSeq(replaced, 1, KeptCharacters) \o << ".", ".", "." >>
        ELSE replaced

make_download_title(content) ==
    [content EXCEPT !.download_title = Some(filename(content.title))]

(* ------------------------------- status -------------------------------- *)

\* the extraction status the columns extracted and extraction_error encode
PostStatus(post) ==
    IF post.extracted THEN "extracted"
    ELSE IF post.extraction_error # Null THEN "extraction-failed"
    ELSE "pending"

\* the download status the columns downloaded and download_error encode
ContentStatus(content) ==
    IF content.downloaded THEN "downloaded"
    ELSE IF content.download_error # Null THEN "download-failed"
    ELSE "pending"

\* the session that discovered a content: the session of its owning post
DiscoverySession(c) == posts[contents[c].post_id].download_session_id

(* ------------------------------- actions ------------------------------- *)

\* time passes between two readings of datetime.now()
Tick ==
    /\ now < MaxClock
    /\ now' = now + 1
    /\ UNCHANGED << run_vars, posts, contents, session_id, raised,
                    source_vars, coordinator_vars >>

\* source.set_date_limit(epoch); the method has no raise statement
SetDateLimit(epoch) ==
    /\ absolute_date_limit' = set_date_limit(absolute_date_limit, epoch)
    /\ candidates' = candidates \cup {epoch}
    /\ raised' = Null
    /\ UNCHANGED << run_vars, posts, contents, now, session_id, initial_limit,
                    coordinator_vars >>

\* post.set_extracted()
SetExtracted(p) ==
    /\ posts' = [posts EXCEPT ![p] = set_extracted(posts[p], now)]
    /\ raised' = Null
    /\ UNCHANGED << run_vars, contents, now, session_id, source_vars, coordinator_vars >>

\* post.set_extraction_failed(message)
SetExtractionFailed(p, message) ==
    /\ posts' = [posts EXCEPT ![p] = set_extraction_failed(posts[p], message)]
    /\ raised' = Null
    /\ UNCHANGED << run_vars, contents, now, session_id, source_vars, coordinator_vars >>

\* content.set_downloaded(download_session_id), called with the open session
SetDownloaded(c) ==
    /\ contents' = [contents EXCEPT
                       ![c] = set_downloaded(contents[c], session_id, now)]
    /\ raised' = Null
    /\ UNCHANGED << run_vars, posts, now, session_id, source_vars, coordinator_vars >>

\* content.set_download_error(message)
SetDownloadError(c, message) ==
    /\ contents' = [contents EXCEPT
                       ![c] = set_download_error(contents[c], message)]
    /\ raised' = Null
    /\ UNCHANGED << run_vars, posts, now, session_id, source_vars, coordinator_vars >>

\* content.make_download_title()
MakeDownloadTitle(c) ==
    /\ contents' = [contents EXCEPT ![c] = make_download_title(contents[c])]
    /\ raised' = Null
    /\ UNCHANGED << run_vars, posts, now, session_id, source_vars, coordinator_vars >>

\* a later orchestration run opens the next DownloadSession
OpenSession ==
    /\ session_id < MaxSession
    /\ session_id' = session_id + 1
    /\ UNCHANGED << run_vars, posts, contents, now, raised,
                    source_vars, coordinator_vars >>

(* ---------------------------- initial states --------------------------- *)

\* the source has any watermark; nothing has been passed to set_date_limit
InitSource ==
    /\ absolute_date_limit \in { fromtimestamp(e) : e \in Epochs }
    /\ initial_limit = timestamp(absolute_date_limit)
    /\ candidates = {}

\* no batch is open
InitCoordinator ==
    /\ phase = "idle"
    /\ batch = {}
    /\ outcome = [p \in Posts |-> "none"]
    /\ failed_before = {}

\* an open session; every row was discovered in it or in an earlier one
InitSession ==
    /\ session_id \in Sessions
    /\ now = 0
    /\ raised = Null

DefaultTitle == << "a" >>

\* pending posts, posted at any time and discovered in the open session or
\* in an earlier one
InitPosts ==
    posts \in [Posts -> { NewPost(fromtimestamp(e), s) :
                            e \in Epochs, s \in 1..session_id }]

\* pending contents, each of any post
InitContents ==
    contents \in [Contents -> { NewContent(p, DefaultTitle) : p \in Posts }]

\* a DownloadSession row as its nullable columns leave it
NewDownloadSession == [ start_time |-> Null, end_time |-> Null ]

\* deduplication on (the column default), no Content row created yet, the
\* workers idle, no session started
InitRun ==
    /\ avoid_duplicates = TRUE
    /\ content_table = << >>
    /\ workers = [w \in Workers |-> [pc |-> "idle", item |-> Null]]
    /\ download_sessions = [s \in Sessions |-> NewDownloadSession]

(* ------------------- RedditObject: the watermark ----------------------- *)

SourceInit ==
    /\ InitSource
    /\ InitCoordinator
    /\ InitSession
    /\ InitRun
    /\ session_id = 1
    /\ posts = [p \in Posts |-> NewPost(fromtimestamp(0), 1)]
    /\ contents = [c \in Contents |-> NewContent(1, DefaultTitle)]

SourceNext == \E epoch \in Epochs : SetDateLimit(epoch)

SourceSpec == SourceInit /\ [][SourceNext]_vars

(* ----------------------- Post: extraction status ----------------------- *)

PostInit ==
    /\ absolute_date_limit = fromtimestamp(0)
    /\ initial_limit = 0
    /\ candidates = {}
    /\ InitCoordinator
    /\ InitSession
    /\ InitRun
    /\ session_id = 1
    /\ posts = [p \in Posts |-> NewPost(fromtimestamp(0), 1)]
    /\ contents = [c \in Contents |-> NewContent(1, DefaultTitle)]

PostNext ==
    \/ \E p \in Posts : SetExtracted(p)
    \/ \E p \in Posts, message \in Messages : SetExtractionFailed(p, message)
    \/ Tick

PostSpec == PostInit /\ [][PostNext]_vars

(* ---------------------- Content: download status ----------------------- *)

ContentInit ==
    /\ absolute_date_limit = fromtimestamp(0)
    /\ initial_limit = 0
    /\ candidates = {}
    /\ InitCoordinator
    /\ InitSession
    /\ InitRun
    /\ InitPosts
    /\ InitContents
    /\ \A p \in Posts : posts[p].date_posted = fromtimestamp(0)

ContentNext ==
    \/ \E c \in Contents : SetDownloaded(c)
    \/ \E c \in Contents, message \in Messages : SetDownloadError(c, message)
    \/ OpenSession
    \/ Tick

ContentSpec == ContentInit /\ [][ContentNext]_vars

(* -------------------- Content: the download title ---------------------- *)

\* a title of the given length, all "a" but for one character (a position
\* outside the title: all "a")
TitleWith(length, position, char) ==
    [ i \in 1..length |-> IF i = position THEN char ELSE "a" ]

TitleLengths ==
    (0..MaxMargin) \cup ((CharacterLimit - MaxMargin)..(CharacterLimit + MaxMargin))

\* where the one other character is put: nowhere, at either end of the
\* title, and on either side of the cut
TitlePositions(length) ==
    { 0, 1, KeptCharacters, KeptCharacters + 1, length }

\* the title of the sanitizing scenario, a/b\c:d?e
ScenarioTitle == << "a", "/", "b", "\\", "c", ":", "d", "?", "e" >>

TitleInputs ==
    UNION { { TitleWith(n, k, ch) : k \in TitlePositions(n),
                                    ch \in forbidden_chars \cup {"#", "b", " "} } :
            n \in TitleLengths }
    \cup { ScenarioTitle }

TitleInit ==
    /\ absolute_date_limit = fromtimestamp(0)
    /\ initial_limit = 0
    /\ candidates = {}
    /\ InitCoordinator
    /\ InitSession
    /\ InitRun
    /\ session_id = 1
    /\ posts = [p \in Posts |-> NewPost(fromtimestamp(0), 1)]
    /\ contents \in [Contents -> { NewContent(1, t) : t \in TitleInputs }]

TitleNext == \E c \in Contents : MakeDownloadTitle(c)

TitleSpec == TitleInit /\ [][TitleNext]_vars

(* ------------------------ Extraction Coordinator ----------------------- *)
(* One source's extraction batch as sections 4.3 and 5 of the design       *)
(* describe it: the candidate posts are dispatched, their outcomes are     *)
(* marked on the Post rows in whatever order they arrive, and the          *)
(* watermark is advanced only once every outcome is in, over the posts     *)
(* extracted that are older than every post that failed.                   *)

posted_at(p) == timestamp(posts[p].date_posted)

\* posts newer than the watermark that are not extracted yet
CandidatePosts ==
    { p \in Posts : /\ posted_at(p) > timestamp(absolute_date_limit)
                    /\ ~posts[p].extracted }

\* the posts of the batch whose timestamps may advance the watermark:
\* those marked extracted, older than every post of the batch that is not
AdvancingPosts ==
    { p \in batch : /\ posts[p].extracted
                    /\ \A q \in batch :
                          ~posts[q].extracted => posted_at(p) < posted_at(q) }

\* set_date_limit called once for every epoch of a set
RECURSIVE AdvanceAll(_, _)
AdvanceAll(limit, epochs) ==
    IF epochs = {} THEN limit
    ELSE LET epoch == CHOOSE e \in epochs : TRUE
         IN  AdvanceAll(set_date_limit(limit, epoch), epochs \ {epoch})

\* a batch of candidate posts is dispatched; the failures of the batch
\* before it become history
StartBatch(dispatched) ==
    /\ phase \in {"idle", "finalized"}
    /\ dispatched # {}
    /\ dispatched \subseteq CandidatePosts
    /\ phase' = "extracting"
    /\ batch' = dispatched
    /\ outcome' = [p \in Posts |-> "none"]
    /\ failed_before' = failed_before \cup { p \in batch : outcome[p] = "failed" }
    /\ UNCHANGED << run_vars, posts, contents, now, session_id, raised, source_vars >>

\* the extractor of a dispatched post returned its content
PostSucceeds(p) ==
    /\ phase = "extracting"
    /\ p \in batch
    /\ outcome[p] = "none"
    /\ posts' = [posts EXCEPT ![p] = set_extracted(posts[p], now)]
    /\ outcome' = [outcome EXCEPT ![p] = "extracted"]
    /\ raised' = Null
    /\ UNCHANGED << run_vars, contents, now, session_id, source_vars,
                    phase, batch, failed_before >>

\* the extractor of a dispatched post reported a failure
PostFails(p, message) ==
    /\ phase = "extracting"
    /\ p \in batch
    /\ outcome[p] = "none"
    /\ posts' = [posts EXCEPT ![p] = set_extraction_failed(posts[p], message)]
    /\ outcome' = [outcome EXCEPT ![p] = "failed"]
    /\ raised' = Null
    /\ UNCHANGED << run_vars, contents, now, session_id, source_vars,
                    phase, batch, failed_before >>

\* every outcome is in: the watermark is advanced
FinalizeBatch ==
    /\ phase = "extracting"
    /\ \A p \in batch : outcome[p] # "none"
    /\ absolute_date_limit' =
           AdvanceAll(absolute_date_limit,
                      { posted_at(p) : p \in AdvancingPosts })
    /\ candidates' = candidates \cup { posted_at(p) : p \in AdvancingPosts }
    /\ phase' = "finalized"
    /\ raised' = Null
    /\ UNCHANGED << run_vars, posts, contents, now, session_id, initial_limit,
                    batch, outcome, failed_before >>

CoordinatorInit ==
    /\ InitSource
    /\ InitCoordinator
    /\ InitSession
    /\ InitRun
    /\ session_id = 1
    /\ InitPosts
    \* the posts are interchangeable: number them by posting time
    /\ \A p, q \in Posts :
          p < q => posts[p].date_posted <= posts[q].date_posted
    /\ contents = [c \in Contents |-> NewContent(1, DefaultTitle)]

CoordinatorNext ==
    \/ \E dispatched \in SUBSET Posts : StartBatch(dispatched)
    \/ \E p \in Posts : PostSucceeds(p)
    \/ \E p \in Posts, message \in Messages : PostFails(p, message)
    \/ FinalizeBatch
    \/ Tick

CoordinatorSpec == CoordinatorInit /\ [][CoordinatorNext]_vars

(* ------------------- Content rows created by workers ------------------- *)
(* The extraction workers of section 5 of the design: each takes an item   *)
(* an extractor returned for a post of the author, looks for a Content row *)
(* of the author with the same download title and extension when the       *)
(* source avoids duplicates, and creates the row when it saw none.  The    *)
(* look-up and the insert are two statements of the worker's own session.  *)

\* the one author whose posts are extracted, and the post extracted
Author == 1
ExtractedPost == 1

Extensions == {"mp4", "jpg"}
\* "/" and "#" are different titles with one download title
ItemTitles == { << "a" >>, << "/" >>, << "#" >> }
Items == [title : ItemTitles, extension : Extensions]

\* the Content row a worker builds for an item, its download title made
ContentOf(item) ==
    make_download_title([ user_id |-> Author,
                          post_id |-> ExtractedPost,
                          title |-> item.title,
                          download_title |-> Null,
                          extension |-> item.extension ])

\* what deduplication compares
ContentKey(row) == << row.user_id, row.download_title, row.extension >>

\* session.add(content); session.commit(): the content table declares no
\* unique constraint, so the insert always succeeds
add_content(table, row) == Append(table, row)

\* a Content row with the key of the item is in the table
Collides(item) ==
    \E i \in 1..Len(content_table) :
        ContentKey(content_table[i]) = ContentKey(ContentOf(item))

\* a worker is handed an item of the post
Dispatch(w, item) ==
    /\ workers[w].pc = "idle"
    /\ workers' = [workers EXCEPT ![w] = [pc |-> "checking", item |-> Some(item)]]
    /\ UNCHANGED << absolute_date_limit, posts, contents, now, session_id,
                    raised, initial_limit, candidates, coordinator_vars,
                    avoid_duplicates, content_table, download_sessions >>

\* the worker looks for a colliding row; a duplicate is skipped
CheckDuplicate(w) ==
    /\ workers[w].pc = "checking"
    /\ workers' = [workers EXCEPT ![w] =
                      IF avoid_duplicates /\ Collides(workers[w].item[1])
                      THEN [pc |-> "idle", item |-> Null]
                      ELSE [pc |-> "creating", item |-> workers[w].item]]
    /\ UNCHANGED << absolute_date_limit, posts, contents, now, session_id,
                    raised, initial_limit, candidates, coordinator_vars,
                    avoid_duplicates, content_table, download_sessions >>

\* the worker creates the Content row it found no duplicate of
CreateContent(w) ==
    /\ workers[w].pc = "creating"
    /\ Len(content_table) < MaxRows
    /\ content_table' = add_content(content_table, ContentOf(workers[w].item[1]))
    /\ workers' = [workers EXCEPT ![w] = [pc |-> "idle", item |-> Null]]
    /\ UNCHANGED << absolute_date_limit, posts, contents, now, session_id,
                    raised, initial_limit, candidates, coordinator_vars,
                    avoid_duplicates, download_sessions >>

DedupInit ==
    /\ absolute_date_limit = fromtimestamp(0)
    /\ initial_limit = 0
    /\ candidates = {}
    /\ InitCoordinator
    /\ InitSession
    /\ session_id = 1
    /\ posts = [p \in Posts |-> NewPost(fromtimestamp(0), 1)]
    /\ contents = [c \in Contents |-> NewContent(1, DefaultTitle)]
    /\ avoid_duplicates \in BOOLEAN
    /\ content_table = << >>
    /\ workers = [w \in Workers |-> [pc |-> "idle", item |-> Null]]
    /\ download_sessions = [s \in Sessions |-> NewDownloadSession]

DedupNext ==
    \/ \E w \in Workers, item \in Items : Dispatch(w, item)
    \/ \E w \in Workers : CheckDuplicate(w)
    \/ \E w \in Workers : CreateContent(w)

DedupSpec == DedupInit /\ [][DedupNext]_vars

(* --------------------------- DownloadSession --------------------------- *)

\* DownloadSession.duration_epoch of a session with both times set
duration_epoch(session) ==
    timestamp(session.start_time[1]) - timestamp(session.end_time[1])

\* a run starts: its session gets its start time
StartSession(s, epoch) ==
    /\ download_sessions[s].start_time = Null
    /\ download_sessions' = [download_sessions EXCEPT
                                ![s].start_time = Some(fromtimestamp(epoch))]
    /\ UNCHANGED << absolute_date_limit, posts, contents, now, session_id,
                    raised, initial_limit, candidates, coordinator_vars,
                    avoid_duplicates, content_table, workers >>

\* the run is over: its session is closed with the reading of the clock,
\* which may have been set back since the start
EndSession(s, epoch) ==
    /\ download_sessions[s].start_time # Null
    /\ download_sessions[s].end_time = Null
    /\ download_sessions' = [download_sessions EXCEPT
                                ![s].end_time = Some(fromtimestamp(epoch))]
    /\ UNCHANGED << absolute_date_limit, posts, contents, now, session_id,
                    raised, initial_limit, candidates, coordinator_vars,
                    avoid_duplicates, content_table, workers >>

SessionInit ==
    /\ absolute_date_limit = fromtimestamp(0)
    /\ initial_limit = 0
    /\ candidates = {}
    /\ InitCoordinator
    /\ InitSession
    /\ InitRun
    /\ session_id = 1
    /\ posts = [p \in Posts |-> NewPost(fromtimestamp(0), 1)]
    /\ contents = [c \in Contents |-> NewContent(1, DefaultTitle)]

SessionNext ==
    \/ \E s \in Sessions, epoch \in Epochs : StartSession(s, epoch)
    \/ \E s \in Sessions, epoch \in Epochs : EndSession(s, epoch)

SessionSpec == SessionInit /\ [][SessionNext]_vars

(* ============================== properties ============================= *)

Max(S) == CHOOSE x \in S : \A y \in S : y <= x

\* C1: the watermark never decreases: every step leaves absolute_date_limit
\* at or above its value before the step, whatever epoch set_date_limit gets.
C1_WatermarkNonDecreasing ==
    [][absolute_date_limit' >= absolute_date_limit]_vars

\* C1 witness: the watermark has advanced and an epoch older than it has
\* been passed to set_date_limit as well.
C1_Witness ==
    /\ timestamp(absolute_date_limit) > initial_limit
    /\ \E e \in candidates : e < timestamp(absolute_date_limit)
    /\ \E e \in candidates : e < initial_limit

\* C6: whatever epochs were passed to set_date_limit, in whatever order and
\* however often, the watermark is the maximum of its initial value and
\* all of them.
C6_WatermarkIsMaximum ==
    timestamp(absolute_date_limit) = Max({initial_limit} \cup candidates)

\* C6 witness: at least three epochs were applied, some older and some newer
\* than the initial watermark, among them the initial value itself.
C6_Witness ==
    /\ Cardinality(candidates) >= 3
    /\ initial_limit \in candidates
    /\ \E e \in candidates : e < initial_limit
    /\ \E e \in candidates : e > initial_limit

\* C3: a post's extraction status never moves backward: an extracted post
\* stays extracted and a failed post stays failed, whatever method is called.
C3_PostStatusOneWay ==
    [][\A p \in Posts :
          /\ posts[p].extracted => posts'[p].extracted
          /\ PostStatus(posts[p]) = "extraction-failed"
                => PostStatus(posts'[p]) = "extraction-failed"]_vars

\* C4: a content's downloaded flag only moves from false to true: once it
\* is true no call sets it back to false.
C4_DownloadedOneWay ==
    [][\A c \in Contents :
          contents[c].downloaded => contents'[c].downloaded]_vars

\* C5: a status-transition method called on a post or content that is
\* already in a terminal status raises InvalidTransition and leaves the row
\* as it was.
C5_TerminalCallIsRejected ==
    [][/\ \A p \in Posts :
             ( /\ PostStatus(posts[p]) # "pending"
               /\ \/ SetExtracted(p)
                  \/ \E message \in Messages : SetExtractionFailed(p, message) )
             => ( raised' = Some("InvalidTransition") /\ posts'[p] = posts[p] )
       /\ \A c \in Contents :
             ( /\ ContentStatus(contents[c]) # "pending"
               /\ \/ SetDownloaded(c)
                  \/ \E message \in Messages : SetDownloadError(c, message) )
             => ( raised' = Some("InvalidTransition")
                  /\ contents'[c] = contents[c] )]_vars

\* C9: when a content whose download failed is marked downloaded in a
\* session later than the one that discovered it, the row carries the later
\* session as its download session, and the discovery session (that of its
\* post) is what it was: both are recorded and they differ.
C9_LateDownloadKeepsBothSessions ==
    [][\A c \in Contents :
          ( /\ ContentStatus(contents[c]) = "download-failed"
            /\ session_id > DiscoverySession(c)
            /\ SetDownloaded(c) )
          => ( /\ contents'[c].download_session_id = Some(session_id)
               /\ DiscoverySession(c)' = DiscoverySession(c)
               /\ contents'[c].download_session_id
                     # Some(DiscoverySession(c)') )]_vars

\* C9 witness: a content that failed to download is now downloaded, in a
\* session after the one its post was discovered in.
C9_Witness ==
    \E c \in Contents :
        /\ contents[c].downloaded
        /\ contents[c].download_error # Null
        /\ contents[c].download_session_id = Some(session_id)
        /\ session_id > DiscoverySession(c)

\* C7: computing the download title is idempotent: the sanitize-and-truncate
\* step applied to a computed download title returns it unchanged, also
\* when the title was long enough to be cut.
C7_DownloadTitleIdempotent ==
    \A c \in Contents :
        contents[c].download_title # Null
            => filename(contents[c].download_title[1])
                   = contents[c].download_title[1]

\* C8: a computed download title holds no forbidden character, is at most
\* 176 characters long, and is exactly 173 long when it was cut.
C8_DownloadTitleSafe ==
    \A c \in Contents :
        contents[c].download_title # Null
            => LET name == contents[c].download_title[1]
               IN  /\ \A i \in 1..Len(name) : name[i] \notin forbidden_chars
                   /\ Len(name) <= 176
                   /\ Len(contents[c].title) >= 176 => Len(name) = 173

C11_NoDuplicateContent ==
    avoid_duplicates
        => \A i, j \in 1..Len(content_table) :
              i # j => ContentKey(content_table[i]) # ContentKey(content_table[j])

\* C12: for every closed session whose end time is not before its start
\* time, duration_epoch is not negative and is the end time minus the
\* start time, in seconds.
C12_DurationIsEndMinusStart ==
    \A s \in Sessions :
        LET session == download_sessions[s]
        IN  ( /\ session.start_time # Null
              /\ session.end_time # Null
              /\ session.end_time[1] >= session.start_time[1] )
            => /\ duration_epoch(session) >= 0
               /\ duration_epoch(session)
                      = timestamp(session.end_time[1])
                            - timestamp(session.start_time[1])

====
